---- MODULE Spec2Model ----
(***************************************************************************)
(* Model of angela::MerkleTree (include/angela/Merkle.hpp), its checksum   *)
(* (include/angela/Checksum.hpp) and the driver main.cpp.                  *)
(*                                                                         *)
(* The heap is a sequence of MerkleNode records; a shared_ptr is an index  *)
(* into it and NULL the empty pointer.  A constructor call is modelled     *)
(* loop iteration by loop iteration: Construct enters the constructor,     *)
(* Read is one iteration of the while loop of generate_leaves,             *)
(* ReturnLeaves its exit into make_tree, Pass one iteration of the outer   *)
(* for loop of make_tree and Finish the assertion and the assignment of    *)
(* root.  Construct2 and Compare are lines 10 and 12 of main.              *)
(***************************************************************************)
EXTENDS Integers, Sequences, FiniteSets, TLC

\* ------------------------------------------------------------------ bounds
MaxLen == 7
MaxChunk == 3
MaxPairLen == 5
Bytes == {0, 1}

NULL == 0

VARIABLES contents, chunk_size, cur, pc, m_ChunkSize, stream, read_offset,
          result, tree, _i, heap, root, eq

vars == <<contents, chunk_size, cur, pc, m_ChunkSize, stream, read_offset,
          result, tree, _i, heap, root, eq>>

Strings(n) == UNION {[1..k -> Bytes] : k \in 0..n}

Min(a, b) == IF a < b THEN a ELSE b

RECURSIVE Pow2(_)
Pow2(n) == IF n = 0 THEN 1 ELSE 2 * Pow2(n - 1)

Zeros(n) == [j \in 1..n |-> 0]

\* ---------------------------------------------------------------- checksum
\* Sha256::hash.  The digest is a free term over the hashed contents: equal
\* contents give equal digests (the function is deterministic) and distinct
\* contents distinct digests (no collisions).  Its data are the digest bytes,
\* kept as one opaque unit.
Hash(bytes) == [data |-> << <<"sha256", bytes>> >>]

\* ------------------------------------------------------------------ nodes
MerkleNodeData(checksum, chunk_offset, size) ==
    [checksum |-> checksum, chunk_offset |-> chunk_offset, chunk_size |-> size]

\* explicit MerkleNode(MerkleNodeData&&): parent, left and right start empty
MerkleNode(d) == [data |-> d, parent |-> NULL, left |-> NULL, right |-> NULL]

isRoot(n) == n.parent = NULL
isLeaf(n) == n.left = NULL /\ n.right = NULL

\* MerkleNode::operator==
NodeEq(a, b) ==
    IF isRoot(a) # isRoot(b) THEN FALSE
    ELSE IF isLeaf(a) # isLeaf(b) THEN FALSE
    ELSE a.data = b.data

TreeEqPtr(a, b) == root[a] = root[b]

\* MerkleTree::operator==
TreeEq(a, b) ==
    (root[a] # NULL /\ root[b] # NULL) /\ NodeEq(heap[root[a]], heap[root[b]])

\* ----------------------------------------------------------------- stream
\* std::istringstream over a copy of the contents
NewStream(s) == [str |-> s, pos |-> 0, eofbit |-> FALSE, failbit |-> FALSE]

\* stream.read(buf.data(), n) followed by stream.gcount(): up to n characters
\* are extracted; reaching the end before n characters were extracted sets
\* eofbit and failbit.
StreamRead(st, n) ==
    LET avail == Len(st.str) - st.pos
        got   == Min(n, avail)
    IN  [stream |-> [st EXCEPT !.pos = st.pos + got,
                               !.eofbit = st.eofbit \/ got < n,
                               !.failbit = st.failbit \/ got < n],
         bytes  |-> SubSeq(st.str, st.pos + 1, st.pos + got),
         gcount |-> got]

AnyRead(bytes_read) == TRUE

\* if (const auto bytes_read = static_cast<std::size_t>(stream.gcount()))
NonEmptyRead(bytes_read) == bytes_read # 0

\* -------------------------------------------------------------- make_tree
LoopCondTruncated(i, n) == n >= 1 /\ Pow2(i + 1) <= n

\* _i < tree_height with tree_height = std::log2(leaves.size()), a double:
\* log2(0) is -infinity, so the loop does not run for no leaves; for n >= 1,
\* _i < log2(n) exactly when 2^_i < n (the double is exact enough for every
\* number of leaves that fits in memory).
LoopCond(i, n) == n >= 1 /\ Pow2(i) < n

\* i < prev.size() - 1, compared as unsigned: on an empty level the bound wraps
\* to the largest std::size_t and every i >= 0 is below it.
InnerLoopCond(i, prev) == IF Len(prev) = 0 THEN TRUE ELSE i < Len(prev) - 1

ParentChecksumLeftOnly(h, l, r) == Hash(h[l].data.checksum.data)

\* concatenate the ranges and hash them
ParentChecksum(h, l, r) ==
    Hash(h[l].data.checksum.data \o h[r].data.checksum.data)

ParentSizeLeftOnly(h, l, r) == h[l].data.chunk_size

ParentSize(h, l, r) == h[l].data.chunk_size + h[r].data.chunk_size

ParentOffsetRight(h, l, r) == h[r].data.chunk_offset

ParentOffset(h, l, r) == h[l].data.chunk_offset

\* the parent node of prev[i] and prev[i+1]
ParentNode(h, l, r) ==
    [MerkleNode(MerkleNodeData(ParentChecksum(h, l, r), ParentOffset(h, l, r),
                               ParentSize(h, l, r)))
        EXCEPT !.left = l, !.right = r]

\* the inner for loop from index i on (i counts from 0 as in the source)
RECURSIVE PairUp(_, _, _, _)
PairUp(i, prev, h, level) ==
    IF InnerLoopCond(i, prev)
    THEN PairUp(i + 2, prev, Append(h, ParentNode(h, prev[i + 1], prev[i + 2])),
                Append(level, Len(h) + 1))
    ELSE [heap |-> h, level |-> level]

CarryOddDropped(prev, level) == level

\* if (prev.size() % 2) level.push_back(prev.back())
CarryOdd(prev, level) ==
    IF Len(prev) % 2 = 1 THEN Append(level, prev[Len(prev)]) ELSE level

\* ------------------------------------------------------------------- Init
Init ==
    /\ contents \in {<<s>> : s \in Strings(MaxLen)}
    /\ chunk_size \in 0..MaxChunk
    /\ cur = 1
    /\ pc = "start"
    /\ m_ChunkSize = <<>>
    /\ stream = NewStream(<<>>)
    /\ read_offset = 0
    /\ result = <<>>
    /\ tree = <<>>
    /\ _i = 0
    /\ heap = <<>>
    /\ root = <<>>
    /\ eq = "none"

\* The constructor up to the while loop of generate_leaves
Enter(k) ==
    /\ cur' = k
    /\ m_ChunkSize' = Append(m_ChunkSize, chunk_size)
    /\ root' = Append(root, NULL)
    /\ stream' = NewStream(contents'[k])
    /\ result' = <<>>
    /\ read_offset' = 0
    /\ tree' = <<>>
    /\ _i' = 0
    /\ pc' = "generate_leaves"
    /\ UNCHANGED <<chunk_size, heap, eq>>

\* main, line 9: tree_1
Construct ==
    /\ pc = "start"
    /\ contents' = contents
    /\ Enter(1)

\* main, line 10: tree_2, built from a string as long as the first
Construct2 ==
    /\ pc = "done"
    /\ cur = 1
    /\ Len(contents[1]) \in 1..MaxPairLen
    /\ \E s \in [1..Len(contents[1]) -> Bytes] : contents' = Append(contents, s)
    /\ Enter(2)

\* One iteration of the while loop of generate_leaves
Read ==
    /\ pc = "generate_leaves"
    /\ ~stream.eofbit
    /\ LET rd         == StreamRead(stream, m_ChunkSize[cur])
           bytes_read == rd.gcount
           buf        == rd.bytes \o Zeros(m_ChunkSize[cur] - bytes_read)
           node       == MerkleNode(MerkleNodeData(
                             Hash(SubSeq(buf, 1, bytes_read)),
                             read_offset, bytes_read))
       IN  /\ stream' = rd.stream
           /\ IF NonEmptyRead(bytes_read)
              THEN /\ heap' = Append(heap, node)
                   /\ result' = Append(result, Len(heap) + 1)
                   /\ read_offset' = read_offset + bytes_read
              ELSE UNCHANGED <<heap, result, read_offset>>
    /\ UNCHANGED <<contents, chunk_size, cur, pc, m_ChunkSize, tree, _i, root, eq>>

\* The end of generate_leaves and the start of make_tree
ReturnLeaves ==
    /\ pc = "generate_leaves"
    /\ stream.eofbit
    /\ tree' = <<result>>
    /\ _i' = 0
    /\ pc' = "make_tree"
    /\ UNCHANGED <<contents, chunk_size, cur, m_ChunkSize, stream, read_offset,
                   result, heap, root, eq>>

\* One iteration of the outer for loop of make_tree
Pass ==
    /\ pc = "make_tree"
    /\ LoopCond(_i, Len(tree[1]))
    /\ LET prev  == tree[Len(tree)]
           pairs == PairUp(0, prev, heap, <<>>)
       IN  /\ heap' = pairs.heap
           /\ tree' = Append(tree, CarryOdd(prev, pairs.level))
    /\ _i' = _i + 1
    /\ UNCHANGED <<contents, chunk_size, cur, pc, m_ChunkSize, stream,
                   read_offset, result, root, eq>>

\* What the end of make_tree can do: with assertions compiled in, a last level
\* of any size but one aborts; without them front() of an empty level is
\* undefined and yields an empty or a dangling pointer, or a crash.
FinishOutcomes(last) ==
    IF Len(last) = 1 THEN {[pc |-> "done", root |-> last[1]]}
    ELSE {[pc |-> "assert_failed", root |-> NULL]}
         \cup (IF Len(last) = 0
               THEN {[pc |-> "crashed", root |-> NULL],
                     [pc |-> "done", root |-> NULL],
                     [pc |-> "done", root |-> Len(heap) + 1]}
               ELSE {[pc |-> "done", root |-> last[1]]})

\* The end of the outer loop, the assertion and the assignment of root
Finish ==
    /\ pc = "make_tree"
    /\ ~LoopCond(_i, Len(tree[1]))
    /\ \E o \in FinishOutcomes(tree[Len(tree)]) :
          /\ pc' = o.pc
          /\ root' = [root EXCEPT ![cur] = o.root]
    /\ UNCHANGED <<contents, chunk_size, cur, m_ChunkSize, stream, read_offset,
                   result, tree, _i, heap, eq>>

\* main, line 12: tree_1 == tree_2
Compare ==
    /\ pc = "done"
    /\ cur = 2
    /\ eq' = TreeEq(1, 2)
    /\ pc' = "compared"
    /\ UNCHANGED <<contents, chunk_size, cur, m_ChunkSize, stream, read_offset,
                   result, tree, _i, heap, root>>

Next ==
    \/ Construct
    \/ Construct2
    \/ Read
    \/ ReturnLeaves
    \/ Pass
    \/ Finish
    \/ Compare

Spec == Init /\ [][Next]_vars

\* The program is sequential: an enabled step is taken
FairSpec == Spec /\ WF_vars(Next)

\* ------------------------------------------------------------ properties
CeilDiv(a, b) == (a + b - 1) \div b

RECURSIVE CeilLog2From(_, _)
CeilLog2From(p, n) == IF Pow2(p) >= n THEN p ELSE CeilLog2From(p + 1, n)
CeilLog2(n) == CeilLog2From(0, n)

Valid(p) == p \in DOMAIN heap

\* the nodes of the subtree under p
RECURSIVE Reach(_)
Reach(p) ==
    IF ~Valid(p) THEN {}
    ELSE {p} \cup Reach(heap[p].left) \cup Reach(heap[p].right)

\* the subtrees under p and q have the same shape and the same data
RECURSIVE Iso(_, _)
Iso(p, q) ==
    IF ~Valid(p) \/ ~Valid(q) THEN p = NULL /\ q = NULL
    ELSE /\ heap[p].data = heap[q].data
         /\ Iso(heap[p].left, heap[q].left)
         /\ Iso(heap[p].right, heap[q].right)

\* construction k has returned
Built(k) ==
    /\ k \in DOMAIN root
    /\ k < cur \/ pc \in {"done", "compared"}

\* the construction under way is past generate_leaves
PastLeaves == pc \in {"make_tree", "done", "compared", "assert_failed", "crashed"}

\* the construction under way is past the pass loop of make_tree
PastPasses ==
    \/ pc \in {"done", "compared", "assert_failed", "crashed"}
    \/ pc = "make_tree" /\ ~LoopCond(_i, Len(tree[1]))

NonEmptyInput(k) == Len(contents[k]) >= 1 /\ m_ChunkSize[k] >= 1

TypeOK == pc \in {"start", "generate_leaves", "make_tree", "done",
                  "assert_failed", "crashed", "compared"}

\* C1: for a non-empty string s and a chunk size c >= 1 the construction
\* finishes (no failed assertion, no crash) with a root whose chunk_size is
\* len(s), for every number of leaves.
C1_RootSpansInput ==
    /\ pc \in {"assert_failed", "crashed"} => ~NonEmptyInput(cur)
    /\ \A k \in DOMAIN root :
          Built(k) /\ NonEmptyInput(k)
             => /\ Valid(root[k])
                /\ heap[root[k]].data.chunk_size = Len(contents[k])

\* C1 witness: a tree of seven one-byte leaves has been built
C1_Witness ==
    /\ pc = "done" /\ cur = 1
    /\ Len(contents[1]) = 7 /\ m_ChunkSize[1] = 1
    /\ Len(tree[1]) = 7 /\ Valid(root[1])

\* C2: a construction with chunk_size 0 fails at once with
\* InvalidConfiguration, whatever the input: it never enters the read loop
\* and never produces a leaf.
C2_ZeroChunkRejected ==
    (pc # "start" /\ m_ChunkSize[cur] = 0)
        => /\ pc = "InvalidConfiguration"
           /\ result = <<>>
           /\ stream.pos = 0

\* C3: for the empty input and a chunk size c >= 1 the construction ends
\* normally with no leaves and no root: no pass runs, the assertion on the
\* last level does not fail and nothing of an empty level is dereferenced.
C3_EmptyInputNoRoot ==
    (PastPasses /\ contents[cur] = <<>> /\ m_ChunkSize[cur] >= 1)
        => /\ pc \in {"make_tree", "done"}
           /\ result = <<>>
           /\ _i = 0
           /\ root[cur] = NULL

\* C4: two trees built one after the other from the same non-empty string and
\* chunk size >= 1 have the same shape and the same (checksum, chunk_offset,
\* chunk_size) at every node, and operator== holds of them in both orders.
C4_Determinism ==
    (pc = "compared" /\ contents[1] = contents[2])
        => /\ Iso(root[1], root[2])
           /\ Valid(root[1]) /\ Valid(root[2])
           /\ eq = TRUE
           /\ TreeEq(2, 1)

\* C4 witness: two trees of five leaves built from the same string were compared
C4_Witness ==
    /\ pc = "compared"
    /\ contents[1] = contents[2]
    /\ Len(contents[1]) = 5 /\ m_ChunkSize[1] = 1 /\ m_ChunkSize[2] = 1
    /\ root[1] # root[2]

\* C5: two trees built with the same chunk size >= 1 from two non-empty
\* strings of the same length that differ in some byte have different root
\* checksums, and operator== is false of them in both orders.
C5_Sensitivity ==
    (pc = "compared" /\ contents[1] # contents[2])
        => /\ Len(contents[1]) = Len(contents[2])
           /\ heap[root[1]].data.checksum # heap[root[2]].data.checksum
           /\ eq = FALSE
           /\ ~TreeEq(2, 1)

\* C5 witness: as in main, two strings that differ in their last byte only,
\* cut into one-byte chunks, were built and compared
C5_Witness ==
    /\ pc = "compared"
    /\ m_ChunkSize[1] = 1
    /\ LET n == Len(contents[1])
       IN  /\ n >= 5
           /\ contents[1][n] # contents[2][n]
           /\ SubSeq(contents[1], 1, n - 1) = SubSeq(contents[2], 1, n - 1)

\* C6: in a finished tree with at least one leaf exactly one node has no
\* parent, the root, and every child's parent is the node it is a child of.
C6_OneParentlessNode ==
    \A k \in DOMAIN root :
        (Built(k) /\ Valid(root[k]))
           => LET N == Reach(root[k])
              IN  /\ {p \in N : isRoot(heap[p])} = {root[k]}
                  /\ \A p \in N :
                        /\ Valid(heap[p].left) => heap[heap[p].left].parent = p
                        /\ Valid(heap[p].right) => heap[heap[p].right].parent = p

\* what C7 says of the levels built so far
C7_Levels ==
    (PastLeaves /\ Len(tree[1]) >= 1)
        => /\ Len(tree) = _i + 1
           /\ _i <= CeilLog2(Len(tree[1]))
           /\ \A j \in 1.._i : Len(tree[j + 1]) = CeilDiv(Len(tree[j]), 2)
           /\ PastPasses
                => /\ _i = CeilLog2(Len(tree[1]))
                   /\ Len(tree[Len(tree)]) = 1
                   /\ pc # "assert_failed" /\ pc # "crashed"
           /\ (Len(tree[1]) = 1 /\ pc = "done")
                => _i = 0 /\ root[cur] = tree[1][1]

\* C7: for at least one leaf the pass loop ends, after exactly
\* ceil(log2(leaf_count)) passes (none for a single leaf, which is the root),
\* each pass making ceil(k/2) nodes out of k, and it ends with one node in the
\* last level, so the assertion holds.
C7_PassesTerminate ==
    /\ []C7_Levels
    /\ (pc = "make_tree" /\ Len(tree[1]) >= 1) ~> (pc = "done")

\* C7 witness: seven leaves were reduced in three passes
C7_Witness ==
    /\ pc = "done"
    /\ Len(tree[1]) = 7
    /\ _i = 3
    /\ Len(tree[2]) = 4 /\ Len(tree[3]) = 2 /\ Len(tree[4]) = 1

\* what C8 says of three leaves
C8_ThreeLeaves ==
    (pc = "done" /\ Len(tree[1]) = 3)
        => /\ Len(tree[2]) = 2
           /\ heap[tree[2][1]].left = tree[1][1]
           /\ heap[tree[2][1]].right = tree[1][2]
           /\ tree[2][2] = tree[1][3]
           /\ heap[root[cur]].left = tree[2][1]
           /\ heap[root[cur]].right = tree[1][3]

\* what C8 says of a pass on a level prev of odd size k >= 3
C8_PassOnOdd ==
    LET prev == tree[Len(tree)]
        k    == Len(prev)
        next == tree'[Len(tree')]
        half == (k - 1) \div 2
    IN  (pc = "make_tree" /\ LoopCond(_i, Len(tree[1])) /\ k >= 3 /\ k % 2 = 1)
           => /\ Len(tree') = Len(tree) + 1
              /\ Len(next) = half + 1
              /\ \A j \in 1..half :
                    /\ next[j] \notin DOMAIN heap
                    /\ next[j] \in DOMAIN heap'
                    /\ heap'[next[j]].left = prev[2 * j - 1]
                    /\ heap'[next[j]].right = prev[2 * j]
              /\ next[half + 1] = prev[k]
              /\ heap'[prev[k]] = heap[prev[k]]

\* C8: a pass on a level of odd size k >= 3 makes the (k-1)/2 parents of the
\* pairs (0,1), (2,3), ... in order, followed by the last node of the level
\* itself, unchanged; three leaves reduce as (L0,L1)->P0, (P0,L2)->Root.
C8_OddTail == [][C8_PassOnOdd /\ C8_ThreeLeaves']_vars

\* C8 witness: a level of five nodes was reduced and its last node carried
C8_Witness ==
    /\ PastLeaves
    /\ Len(tree) >= 2
    /\ Len(tree[1]) = 5
    /\ Len(tree[2]) = 3
    /\ tree[2][3] = tree[1][5]

\* what C9 says of leaf number i (from 0) of the leaves
C9_Leaf(i) ==
    LET s    == contents[cur]
        c    == m_ChunkSize[cur]
        leaf == heap[result[i + 1]]
        size == Min(c, Len(s) - i * c)
    IN  /\ isLeaf(leaf)
        /\ leaf.data.chunk_offset = i * c
        /\ leaf.data.chunk_size = size
        /\ size > 0
        /\ leaf.data.checksum = Hash(SubSeq(s, i * c + 1, i * c + size))

\* what C9 says of the leaves read so far and of those returned
C9_Leaves ==
    (pc # "start" /\ NonEmptyInput(cur))
        => /\ Len(result) <= CeilDiv(Len(contents[cur]), m_ChunkSize[cur])
           /\ \A i \in 0..(Len(result) - 1) : C9_Leaf(i)
           /\ PastLeaves
                => /\ Len(result) = CeilDiv(Len(contents[cur]), m_ChunkSize[cur])
                   /\ tree[1] = result

\* C9: for a stream of n >= 1 bytes and a chunk size c >= 1 generate_leaves
\* returns, with exactly ceil(n/c) leaves in stream order, leaf i at offset
\* i*c, of size min(c, n - i*c) > 0, with the checksum of those bytes.
C9_Chunking ==
    /\ []C9_Leaves
    /\ (pc = "generate_leaves" /\ NonEmptyInput(cur)) ~> (pc = "make_tree")

\* C9 witness: six bytes in chunks of three gave two leaves after a last read
\* of no bytes
C9_Witness ==
    /\ pc = "make_tree"
    /\ Len(contents[cur]) = 6 /\ m_ChunkSize[cur] = 3
    /\ Len(result) = 2
    /\ stream.eofbit /\ stream.pos = 6

\* C10: every internal node has both children, starts where its left child
\* starts and spans what its two children span, the right child starting
\* where the left one ends.
C10_InternalNodes ==
    \A p \in DOMAIN heap :
        ~isLeaf(heap[p])
           => /\ Valid(heap[p].left) /\ Valid(heap[p].right)
              /\ LET l == heap[heap[p].left].data
                     r == heap[heap[p].right].data
                 IN  /\ heap[p].data.chunk_offset = l.chunk_offset
                     /\ heap[p].data.chunk_size = l.chunk_size + r.chunk_size
                     /\ r.chunk_offset = l.chunk_offset + l.chunk_size

\* C10 witness: in a tree of five leaves the root pairs the parent of four
\* leaves with the fifth leaf, carried up over two levels
C10_Witness ==
    /\ pc = "done"
    /\ Len(tree[1]) = 5
    /\ Valid(root[cur])
    /\ heap[root[cur]].right = tree[1][5]
    /\ heap[root[cur]].left = tree[3][1]
    /\ ~isLeaf(heap[tree[3][1]])
====
